---- MODULE Spec2Model ----
(***************************************************************************)
(* Model of the chord analyzer: the chord matcher (chord-detector          *)
(* component and detectChords), the chord template database, the two       *)
(* spectral pitch detectors (detectPitch, detectPitches), the recorder's   *)
(* analysis ticks, the vocal pitch display and the monophonic pitch        *)
(* tracker that feeds it.                                                  *)
(*                                                                         *)
(* Numbers that are IEEE doubles in the program are modelled exactly:      *)
(* a match score is kept in half points (the program only ever adds a      *)
(* weight, +0.5 or -0.5), a percentage and a frequency are rationals       *)
(* [num, den] in lowest terms.  For the denominators that occur (score     *)
(* totals 3..9, transform sizes) the double the program computes compares  *)
(* with 30, 100 and the range bounds exactly as the rational does.         *)
(***************************************************************************)
EXTENDS Integers, Sequences, FiniteSets, TLC

VARIABLES
    activeNotes,    \* ChordDetector prop: detected pitch classes, in order
    rootNote,       \* ChordDetector prop: root hint, "none" for null
    matches,        \* ChordDetector state: ranked ChordMatch records
    scored,         \* one record per (root, template) pair detectChords visited
    chordPc,        \* "pending" before the effect has run, "done" after
    permuted,       \* a second activeNotes list: the first in another order
    permutedMatches,    \* what detectChords returned for the second list
    frequencyData,  \* the magnitude spectrum, one byte per bin
    fftSize,        \* the transform size the spectrum was produced with
    sampleRate,     \* the sampling rate the spectrum was produced with
    strongestPitch, \* what detectPitch returned, NoPitch for null
    pitchTrace,     \* one record per bin detectPitch found to be a local peak
    pitchPc,        \* "pending" before detectPitch has run, "done" after
    detectedNotes,  \* what detectPitches returned
    peaks,          \* the peaks array of detectPitches, after its sort
    notesTrace,     \* one record per bin detectPitches found to be a local peak
    notesPc,        \* "pending" before detectPitches has run, "done" after
    now,            \* AudioRecorder: the last value Date.now() returned
    lastUpdateTimeRef,  \* AudioRecorder ref: time of the last published change
    detectedNotesRef,   \* AudioRecorder ref: the note list last published
    volume,         \* App state set by setVolume, a rational
    noteDetectionTime,  \* debugInfo.noteDetectionTime, -1 while unset
    ticks,          \* number of analysis ticks so far
    tickKind,       \* what the last tick did: "quiet", "throttled", "same", "changed";
                    \* for the pitch tracker "quiet", "accepted", "ignored"
    pitch,          \* VocalPitchDisplay prop, NoPitch for null
    displayPitch,   \* VocalPitchDisplay state, NoPitch for null
    isStable,       \* VocalPitchDisplay state
    stableTimer,    \* VocalPitchDisplay state
    clearTimer,     \* ms left on the pending setTimeout, -1 when none is pending
    silentFor,      \* ms for which the pitch prop has been null without a break
    feeds,          \* number of changes of the pitch prop so far
    run,            \* length of the run of pitches fed last without a null
                    \* between them, all of one note, each within 15 cents
                    \* of the one before
    history,        \* pitch tracker: the accepted estimates, oldest first
    silenceStart,   \* pitch tracker: when the unbroken silence began, -1 if
                    \* the silence timer is not running
    isRecording,    \* AudioRecorder state
    startPhase,     \* one entry per call of startRecording: "init" while it
                    \* awaits initAudioContext, "mic" while it awaits
                    \* getUserMedia, then "done" or "failed"
    audioContextRef,    \* TRUE once the context, the analyser and the script
                        \* processor have been created
    mediaStreamRef, \* the stream the ref holds, named by the call of
                    \* startRecording that got it, 0 for null
    sourceNodeRef,  \* the source node the ref holds, named likewise, 0 for null
    liveStreams,    \* the streams whose tracks have not been stopped
    connectedSources,   \* the source nodes that have not been disconnected
    processorConnected, \* the script processor is connected to the destination
    onaudioprocess, \* the script processor has its callback
    animationRef,   \* the animation frame the ref holds, 0 for null.  A draw
                    \* loop has one frame requested at a time, and a frame is
                    \* named by the call of startRecording that began its loop
    pendingFrames,  \* the animation frames requested and neither run nor
                    \* cancelled
    lastClick       \* the handler the last button click ran: "none", "start", "stop"

chordVars == <<activeNotes, rootNote, matches, scored, chordPc, permuted,
               permutedMatches>>

spectrumVars == <<frequencyData, fftSize, sampleRate>>

pitchVars == <<strongestPitch, pitchTrace, pitchPc>>

notesVars == <<detectedNotes, peaks, notesTrace, notesPc>>

recorderVars == <<now, lastUpdateTimeRef, detectedNotesRef, volume,
                  noteDetectionTime, ticks, tickKind>>

displayVars == <<pitch, displayPitch, isStable, stableTimer, clearTimer, silentFor,
                 feeds, run>>

trackerVars == <<history, silenceStart>>

sessionVars == <<isRecording, startPhase, audioContextRef, mediaStreamRef,
                 sourceNodeRef, liveStreams, connectedSources, processorConnected,
                 onaudioprocess, animationRef, pendingFrames, lastClick>>

otherVars == <<recorderVars, displayVars, trackerVars, sessionVars>>

vars == <<chordVars, spectrumVars, pitchVars, notesVars, otherVars>>

----------------------------------------------------------------------------
(* Bounds *)

\* longest activeNotes list the chord matcher is given
MaxNotes == 3

\* longest spectrum the pitch detectors are given
MaxBins == 4

----------------------------------------------------------------------------
(* Rationals *)

Abs(n) == IF n < 0 THEN -n ELSE n

RECURSIVE GCD(_, _)
GCD(a, b) == IF b = 0 THEN a ELSE GCD(b, a % b)

\* n/d in lowest terms, d > 0
Rat(n, d) ==
    LET g == GCD(Abs(n), d)
    IN  [num |-> n \div g, den |-> d \div g]

RatLess(a, b) == a.num * b.den < b.num * a.den
RatLeq(a, b) == a.num * b.den <= b.num * a.den
RatMin(a, b) == IF RatLess(b, a) THEN b ELSE a

----------------------------------------------------------------------------
(* Chord template database *)

getAllNotes == <<"C", "C#", "D", "D#", "E", "F", "F#", "G", "G#", "A", "A#", "B">>

\* Array.prototype.indexOf on the 12 names, 0-based, -1 when absent
IndexOf(seq, x) ==
    IF \E i \in 1..Len(seq) : seq[i] = x
    THEN (CHOOSE i \in 1..Len(seq) : seq[i] = x /\ \A j \in 1..(i-1) : seq[j] # x) - 1
    ELSE -1

Includes(seq, x) == \E i \in 1..Len(seq) : seq[i] = x

chordDatabase == <<
    [name |-> "major",            suffix |-> "",        intervals |-> <<0, 4, 7>>],
    [name |-> "minor",            suffix |-> "m",       intervals |-> <<0, 3, 7>>],
    [name |-> "diminished",       suffix |-> "dim",     intervals |-> <<0, 3, 6>>],
    [name |-> "augmented",        suffix |-> "aug",     intervals |-> <<0, 4, 8>>],
    [name |-> "sus2",             suffix |-> "sus2",    intervals |-> <<0, 2, 7>>],
    [name |-> "sus4",             suffix |-> "sus4",    intervals |-> <<0, 5, 7>>],
    [name |-> "major7",           suffix |-> "maj7",    intervals |-> <<0, 4, 7, 11>>],
    [name |-> "dominant7",        suffix |-> "7",       intervals |-> <<0, 4, 7, 10>>],
    [name |-> "minor7",           suffix |-> "m7",      intervals |-> <<0, 3, 7, 10>>],
    [name |-> "minor-major7",     suffix |-> "mMaj7",   intervals |-> <<0, 3, 7, 11>>],
    [name |-> "diminished7",      suffix |-> "dim7",    intervals |-> <<0, 3, 6, 9>>],
    [name |-> "half-diminished7", suffix |-> "m7b5",    intervals |-> <<0, 3, 6, 10>>],
    [name |-> "augmented7",       suffix |-> "aug7",    intervals |-> <<0, 4, 8, 10>>],
    [name |-> "augmented-major7", suffix |-> "augMaj7", intervals |-> <<0, 4, 8, 11>>],
    [name |-> "major6",           suffix |-> "6",       intervals |-> <<0, 4, 7, 9>>],
    [name |-> "minor6",           suffix |-> "m6",      intervals |-> <<0, 3, 7, 9>>],
    [name |-> "major9",           suffix |-> "maj9",    intervals |-> <<0, 4, 7, 11, 14>>],
    [name |-> "dominant9",        suffix |-> "9",       intervals |-> <<0, 4, 7, 10, 14>>],
    [name |-> "minor9",           suffix |-> "m9",      intervals |-> <<0, 3, 7, 10, 14>>],
    [name |-> "major11",          suffix |-> "maj11",   intervals |-> <<0, 4, 7, 11, 14, 17>>],
    [name |-> "dominant11",       suffix |-> "11",      intervals |-> <<0, 4, 7, 10, 14, 17>>],
    [name |-> "minor11",          suffix |-> "m11",     intervals |-> <<0, 3, 7, 10, 14, 17>>],
    [name |-> "major13",          suffix |-> "maj13",   intervals |-> <<0, 4, 7, 11, 14, 17, 21>>],
    [name |-> "dominant13",       suffix |-> "13",      intervals |-> <<0, 4, 7, 10, 14, 17, 21>>],
    [name |-> "minor13",          suffix |-> "m13",     intervals |-> <<0, 3, 7, 10, 14, 17, 21>>],
    [name |-> "add9",             suffix |-> "add9",    intervals |-> <<0, 4, 7, 14>>],
    [name |-> "madd9",            suffix |-> "madd9",   intervals |-> <<0, 3, 7, 14>>],
    [name |-> "add11",            suffix |-> "add11",   intervals |-> <<0, 4, 7, 17>>],
    [name |-> "7b5",              suffix |-> "7b5",     intervals |-> <<0, 4, 6, 10>>],
    [name |-> "7#5",              suffix |-> "7#5",     intervals |-> <<0, 4, 8, 10>>],
    [name |-> "7b9",              suffix |-> "7b9",     intervals |-> <<0, 4, 7, 10, 13>>],
    [name |-> "7#9",              suffix |-> "7#9",     intervals |-> <<0, 4, 7, 10, 15>>],
    [name |-> "7#11",             suffix |-> "7#11",    intervals |-> <<0, 4, 7, 10, 14, 18>>],
    [name |-> "7b13",             suffix |-> "7b13",    intervals |-> <<0, 4, 7, 10, 14, 17, 20>>]
>>

----------------------------------------------------------------------------
(* detectChords *)

generateChordNotes(root, intervals) ==
    LET allNotes == getAllNotes
        rootIndex == IndexOf(allNotes, root)
    IN  [k \in 1..Len(intervals) |-> allNotes[((rootIndex + intervals[k]) % 12) + 1]]

\* Weight as it would be if the interval were first reduced to one octave
WeightModOctave(interval) ==
    LET isThird == interval % 12 = 4 \/ interval % 12 = 3
        isSeventh == interval % 12 = 10 \/ interval % 12 = 11
    IN  IF isThird \/ isSeventh THEN 2 ELSE 1

\* weight of the chord note at one template position
Weight(interval) ==
    LET isThird == interval = 4 \/ interval = 3
        isSeventh == interval = 10 \/ interval = 11
    IN  IF isThird \/ isSeventh THEN 2 ELSE 1

\* chordNotes.forEach: acc is [matchScore2, totalPossibleScore], the match
\* score being counted in half points
RECURSIVE WeightedPass(_, _, _, _, _)
WeightedPass(chordNotes, intervals, notes, index, acc) ==
    IF index > Len(chordNotes) THEN acc
    ELSE LET weight == Weight(intervals[index])
         IN  WeightedPass(chordNotes, intervals, notes, index + 1,
                [matchScore2 |-> IF Includes(notes, chordNotes[index])
                                 THEN acc.matchScore2 + 2 * weight
                                 ELSE acc.matchScore2,
                 totalPossibleScore |-> acc.totalPossibleScore + weight])

\* BonusPass as it would be if the loop ended at the first active note that
\* is not in the chord
RECURSIVE BonusPassUntilMiss(_, _, _, _)
BonusPassUntilMiss(chordNotes, notes, i, matchScore2) ==
    IF i > Len(notes) \/ ~Includes(chordNotes, notes[i]) THEN matchScore2
    ELSE BonusPassUntilMiss(chordNotes, notes, i + 1, matchScore2 + 1)

\* first activeNotes.forEach: +0.5 for each active note that is in the chord
RECURSIVE BonusPass(_, _, _, _)
BonusPass(chordNotes, notes, i, matchScore2) ==
    IF i > Len(notes) THEN matchScore2
    ELSE BonusPass(chordNotes, notes, i + 1,
            IF Includes(chordNotes, notes[i]) THEN matchScore2 + 1 ELSE matchScore2)

\* second activeNotes.forEach: -0.5 for each active note that is not
RECURSIVE PenaltyPass(_, _, _, _)
PenaltyPass(chordNotes, notes, i, matchScore2) ==
    IF i > Len(notes) THEN matchScore2
    ELSE PenaltyPass(chordNotes, notes, i + 1,
            IF ~Includes(chordNotes, notes[i]) THEN matchScore2 - 1 ELSE matchScore2)

\* (matchScore / totalPossibleScore) * 100
MatchPercentage(matchScore2, totalPossibleScore) ==
    Rat(100 * matchScore2, 2 * totalPossibleScore)

\* body of the inner loop for one (root, template) pair, up to the percentage
ScorePair(notes, root, chordInfo) ==
    LET chordNotes == generateChordNotes(root, chordInfo.intervals)
        weighted == WeightedPass(chordNotes, chordInfo.intervals, notes, 1,
                        [matchScore2 |-> 0, totalPossibleScore |-> 0])
        bonus == BonusPass(chordNotes, notes, 1, weighted.matchScore2)
        final == PenaltyPass(chordNotes, notes, 1, bonus)
    IN  [root |-> root,
         chordType |-> chordInfo.name,
         suffix |-> chordInfo.suffix,
         intervals |-> chordInfo.intervals,
         chordNotes |-> chordNotes,
         matchScore2 |-> final,
         totalPossibleScore |-> weighted.totalPossibleScore,
         matchPercentage |-> MatchPercentage(final, weighted.totalPossibleScore)]

\* PossibleRoots as it would be if the hint were ignored
PossibleRootsIgnoringHint(root) == getAllNotes

\* rootNote ? [rootNote] : getAllNotes()
PossibleRoots(root) == IF root # "none" THEN <<root>> ELSE getAllNotes

\* the (root, template) pairs in the order the two nested loops visit them
Visited(notes, root) ==
    LET roots == PossibleRoots(root)
        T == Len(chordDatabase)
    IN  [p \in 1..(Len(roots) * T) |->
            ScorePair(notes, roots[((p - 1) \div T) + 1], chordDatabase[((p - 1) % T) + 1])]

\* Reasonable as it would be with >= in place of >
ReasonableFrom30(matchPercentage) == RatLeq(Rat(30, 1), matchPercentage)

\* if (matchPercentage > 30)
Reasonable(matchPercentage) == RatLess(Rat(30, 1), matchPercentage)

\* Cap as it would be without the Math.min
CapMissing(matchPercentage) == matchPercentage

\* Math.min(matchPercentage, 100)
Cap(matchPercentage) == RatMin(matchPercentage, Rat(100, 1))

\* the record pushed for a pair that passed the threshold
ChordMatch(s) ==
    [name |-> s.chordType,
     fullName |-> s.root \o s.suffix,
     matchPercentage |-> Cap(s.matchPercentage),
     notes |-> s.chordNotes]

\* matches.push for every visited pair that passed the threshold, in visiting
\* order
PushReasonable(visited) ==
    LET kept == SelectSeq(visited, LAMBDA s : Reasonable(s.matchPercentage))
    IN  [p \in 1..Len(kept) |-> ChordMatch(kept[p])]

\* CompareMatches as it would be with a and b exchanged
CompareMatchesAscending(a, b) ==
    IF RatLess(a.matchPercentage, b.matchPercentage) THEN -1
    ELSE IF RatLess(b.matchPercentage, a.matchPercentage) THEN 1
    ELSE 0

\* comparator (a, b) => b.matchPercentage - a.matchPercentage: negative when
\* a sorts before b
CompareMatches(a, b) ==
    IF RatLess(b.matchPercentage, a.matchPercentage) THEN -1
    ELSE IF RatLess(a.matchPercentage, b.matchPercentage) THEN 1
    ELSE 0

Reverse(seq) == [i \in 1..Len(seq) |-> seq[Len(seq) + 1 - i]]

\* SortMatches as it would be if the sort put equal elements in reverse order
RECURSIVE SortMatchesUnstable(_)
SortMatchesUnstable(unsorted) ==
    IF Len(unsorted) = 0 THEN <<>>
    ELSE LET keys == {[matchPercentage |-> unsorted[i].matchPercentage] :
                        i \in 1..Len(unsorted)}
             first == CHOOSE x \in keys : \A y \in keys : CompareMatches(y, x) >= 0
             head == SelectSeq(unsorted, LAMBDA m : CompareMatches(m, first) = 0)
             rest == SelectSeq(unsorted, LAMBDA m : CompareMatches(m, first) # 0)
         IN  Reverse(head) \o SortMatchesUnstable(rest)

\* Array.prototype.sort with that comparator.  The sort is stable, so the
\* result is the elements no other element sorts before, in their original
\* order, followed by the sorted rest.
RECURSIVE SortMatches(_)
SortMatches(unsorted) ==
    IF Len(unsorted) = 0 THEN <<>>
    ELSE LET keys == {[matchPercentage |-> unsorted[i].matchPercentage] :
                        i \in 1..Len(unsorted)}
             first == CHOOSE x \in keys : \A y \in keys : CompareMatches(y, x) >= 0
             head == SelectSeq(unsorted, LAMBDA m : CompareMatches(m, first) = 0)
             rest == SelectSeq(unsorted, LAMBDA m : CompareMatches(m, first) # 0)
         IN  head \o SortMatches(rest)

\* the returned list, together with the pairs the loops visited
detectChords(notes, root) ==
    LET visited == Visited(notes, root)
    IN  [matches |-> SortMatches(PushReasonable(visited)), visited |-> visited]

----------------------------------------------------------------------------
(* ChordDetector component *)

\* the activeNotes lists the component is given: distinct pitch classes, at
\* most n of them.  detectChords reads the list only through includes() and
\* through sums over its elements, so each set of notes is given once, in
\* rising chromatic order.
PitchClasses == {getAllNotes[i] : i \in 1..12}

Rising(seq) ==
    \A i \in 1..(Len(seq) - 1) : IndexOf(getAllNotes, seq[i]) < IndexOf(getAllNotes, seq[i + 1])

NoteLists(n) ==
    {s \in UNION {[1..len -> PitchClasses] : len \in 0..n} : Rising(s)}

\* the null a PitchInfo variable holds before a pitch is found
NoPitch == [note |-> "none"]

\* no spectrum has been analysed
NoSpectrum ==
    /\ frequencyData = <<>>
    /\ fftSize = 2048
    /\ sampleRate = 44100
    /\ strongestPitch = NoPitch
    /\ pitchTrace = <<>>
    /\ pitchPc = "done"
    /\ detectedNotes = <<>>
    /\ peaks = <<>>
    /\ notesTrace = <<>>
    /\ notesPc = "done"

\* the recorder before its first analysis tick: the initial values of its refs
NoRecorder ==
    /\ now = 0
    /\ lastUpdateTimeRef = 0
    /\ detectedNotesRef = <<>>
    /\ volume = [num |-> 0, den |-> 1]
    /\ noteDetectionTime = -1
    /\ ticks = 0
    /\ tickKind = "none"

\* the pitch display before its first render: the initial values of its state
NoDisplay ==
    /\ pitch = NoPitch
    /\ displayPitch = NoPitch
    /\ isStable = FALSE
    /\ stableTimer = 0
    /\ clearTimer = -1
    /\ silentFor = 0
    /\ feeds = 0
    /\ run = 0

\* the pitch tracker before its first call
NoTracker ==
    /\ history = <<>>
    /\ silenceStart = -1

\* the recorder before the first click: the initial values of its state and
\* of its refs
NoSession ==
    /\ isRecording = FALSE
    /\ startPhase = <<>>
    /\ audioContextRef = FALSE
    /\ mediaStreamRef = 0
    /\ sourceNodeRef = 0
    /\ liveStreams = {}
    /\ connectedSources = {}
    /\ processorConnected = FALSE
    /\ onaudioprocess = FALSE
    /\ animationRef = 0
    /\ pendingFrames = {}
    /\ lastClick = "none"

RootHints == {"none"} \cup PitchClasses

ChordInit ==
    /\ activeNotes \in NoteLists(MaxNotes)
    /\ rootNote \in RootHints
    /\ matches = <<>>
    /\ scored = <<>>
    /\ chordPc = "pending"
    /\ permuted = <<>>
    /\ permutedMatches = <<>>
    /\ NoSpectrum
    /\ NoRecorder
    /\ NoDisplay
    /\ NoTracker
    /\ NoSession

\* ChordDetectorEffect as it would be without the early return on an empty
\* note list
ChordDetectorEffectAlwaysDetecting ==
    /\ chordPc = "pending"
    /\ LET detectedMatches == detectChords(activeNotes, rootNote)
       IN  /\ matches' = detectedMatches.matches
           /\ scored' = detectedMatches.visited
    /\ chordPc' = "done"
    /\ UNCHANGED <<activeNotes, rootNote, permuted, permutedMatches, spectrumVars,
                   pitchVars, notesVars, otherVars>>

\* the effect of ChordDetector on [activeNotes, rootNote]
ChordDetectorEffect ==
    /\ chordPc = "pending"
    /\ IF Len(activeNotes) = 0
       THEN /\ matches' = <<>>
            /\ scored' = <<>>
       ELSE LET detectedMatches == detectChords(activeNotes, rootNote)
            IN  /\ matches' = detectedMatches.matches
                /\ scored' = detectedMatches.visited
    /\ chordPc' = "done"
    /\ UNCHANGED <<activeNotes, rootNote, permuted, permutedMatches, spectrumVars,
                   pitchVars, notesVars, otherVars>>

ChordNext == ChordDetectorEffect

ChordSpec == ChordInit /\ [][ChordNext]_vars

----------------------------------------------------------------------------
(* detectChords on one note list given in two orders *)

\* longest list that is given in every order
MaxPermuted == 3

\* the pitch classes the permuted lists are made of: those of C major, of
\* C minor and of the dominant seventh on C
PermutedClasses == {"C", "D#", "E", "G", "A#"}

\* the lists that hold the elements of seq, each once, in any order
Orders(seq) ==
    {[i \in 1..Len(seq) |-> seq[order[i]]] :
        order \in {f \in [1..Len(seq) -> 1..Len(seq)] :
                      \A i, j \in 1..Len(seq) : f[i] = f[j] => i = j}}

PermutationInit ==
    /\ activeNotes \in {s \in NoteLists(MaxPermuted) :
                           \A i \in 1..Len(s) : s[i] \in PermutedClasses}
    /\ rootNote \in RootHints
    /\ permuted = activeNotes
    /\ matches = <<>>
    /\ scored = <<>>
    /\ permutedMatches = <<>>
    /\ chordPc = "pending"
    /\ NoSpectrum
    /\ NoRecorder
    /\ NoDisplay
    /\ NoTracker
    /\ NoSession

\* a call of detectChords on the list and a call on one of its permutations,
\* with the same root hint
DetectChordsOnBoth ==
    /\ chordPc = "pending"
    /\ \E other \in Orders(activeNotes) :
          /\ permuted' = other
          /\ permutedMatches' = detectChords(other, rootNote).matches
    /\ LET detectedMatches == detectChords(activeNotes, rootNote)
       IN  /\ matches' = detectedMatches.matches
           /\ scored' = detectedMatches.visited
    /\ chordPc' = "done"
    /\ UNCHANGED <<activeNotes, rootNote, spectrumVars, pitchVars, notesVars, otherVars>>

PermutationNext == DetectChordsOnBoth

PermutationSpec == PermutationInit /\ [][PermutationNext]_vars
----------------------------------------------------------------------------
(* Note tables.  A band [center - width, center + width] is kept in          *)
(* hundredths of a hertz; a note name is kept as its characters.             *)

NOTE_FREQUENCIES_VOCAL == <<
    [note |-> <<"C", "2">>, center |-> 6541, width |-> 200],
    [note |-> <<"C", "#", "2">>, center |-> 6930, width |-> 200],
    [note |-> <<"D", "2">>, center |-> 7342, width |-> 200],
    [note |-> <<"D", "#", "2">>, center |-> 7778, width |-> 200],
    [note |-> <<"E", "2">>, center |-> 8241, width |-> 200],
    [note |-> <<"F", "2">>, center |-> 8731, width |-> 200],
    [note |-> <<"F", "#", "2">>, center |-> 9250, width |-> 200],
    [note |-> <<"G", "2">>, center |-> 9800, width |-> 200],
    [note |-> <<"G", "#", "2">>, center |-> 10383, width |-> 200],
    [note |-> <<"A", "2">>, center |-> 11000, width |-> 200],
    [note |-> <<"A", "#", "2">>, center |-> 11654, width |-> 200],
    [note |-> <<"B", "2">>, center |-> 12347, width |-> 200],
    [note |-> <<"C", "3">>, center |-> 13081, width |-> 300],
    [note |-> <<"C", "#", "3">>, center |-> 13859, width |-> 300],
    [note |-> <<"D", "3">>, center |-> 14683, width |-> 300],
    [note |-> <<"D", "#", "3">>, center |-> 15556, width |-> 300],
    [note |-> <<"E", "3">>, center |-> 16481, width |-> 300],
    [note |-> <<"F", "3">>, center |-> 17461, width |-> 300],
    [note |-> <<"F", "#", "3">>, center |-> 18500, width |-> 300],
    [note |-> <<"G", "3">>, center |-> 19600, width |-> 300],
    [note |-> <<"G", "#", "3">>, center |-> 20765, width |-> 300],
    [note |-> <<"A", "3">>, center |-> 22000, width |-> 300],
    [note |-> <<"A", "#", "3">>, center |-> 23308, width |-> 300],
    [note |-> <<"B", "3">>, center |-> 24694, width |-> 300],
    [note |-> <<"C", "4">>, center |-> 26163, width |-> 400],
    [note |-> <<"C", "#", "4">>, center |-> 27718, width |-> 400],
    [note |-> <<"D", "4">>, center |-> 29366, width |-> 400],
    [note |-> <<"D", "#", "4">>, center |-> 31113, width |-> 400],
    [note |-> <<"E", "4">>, center |-> 32963, width |-> 400],
    [note |-> <<"F", "4">>, center |-> 34923, width |-> 400],
    [note |-> <<"F", "#", "4">>, center |-> 36999, width |-> 400],
    [note |-> <<"G", "4">>, center |-> 39200, width |-> 400],
    [note |-> <<"G", "#", "4">>, center |-> 41530, width |-> 400],
    [note |-> <<"A", "4">>, center |-> 44000, width |-> 400],
    [note |-> <<"A", "#", "4">>, center |-> 46616, width |-> 400],
    [note |-> <<"B", "4">>, center |-> 49388, width |-> 400],
    [note |-> <<"C", "5">>, center |-> 52325, width |-> 500],
    [note |-> <<"C", "#", "5">>, center |-> 55437, width |-> 500],
    [note |-> <<"D", "5">>, center |-> 58733, width |-> 500],
    [note |-> <<"D", "#", "5">>, center |-> 62225, width |-> 500],
    [note |-> <<"E", "5">>, center |-> 65926, width |-> 500],
    [note |-> <<"F", "5">>, center |-> 69846, width |-> 500],
    [note |-> <<"F", "#", "5">>, center |-> 73999, width |-> 500],
    [note |-> <<"G", "5">>, center |-> 78399, width |-> 500],
    [note |-> <<"G", "#", "5">>, center |-> 83061, width |-> 500],
    [note |-> <<"A", "5">>, center |-> 88000, width |-> 500],
    [note |-> <<"A", "#", "5">>, center |-> 93233, width |-> 500],
    [note |-> <<"B", "5">>, center |-> 98777, width |-> 500]
>>

NOTE_FREQUENCIES_INSTRUMENT == <<
    [note |-> <<"C">>, center |-> 26163, width |-> 1500],
    [note |-> <<"C", "#">>, center |-> 27718, width |-> 1500],
    [note |-> <<"D">>, center |-> 29366, width |-> 1500],
    [note |-> <<"D", "#">>, center |-> 31113, width |-> 1500],
    [note |-> <<"E">>, center |-> 32963, width |-> 1500],
    [note |-> <<"F">>, center |-> 34923, width |-> 1500],
    [note |-> <<"F", "#">>, center |-> 36999, width |-> 1500],
    [note |-> <<"G">>, center |-> 39200, width |-> 1500],
    [note |-> <<"G", "#">>, center |-> 41530, width |-> 1500],
    [note |-> <<"A">>, center |-> 44000, width |-> 1500],
    [note |-> <<"A", "#">>, center |-> 46616, width |-> 1500],
    [note |-> <<"B">>, center |-> 49388, width |-> 1500],
    [note |-> <<"C", "2">>, center |-> 52325, width |-> 1500],
    [note |-> <<"C", "#", "2">>, center |-> 55437, width |-> 1500],
    [note |-> <<"D", "2">>, center |-> 58733, width |-> 1500],
    [note |-> <<"D", "#", "2">>, center |-> 62225, width |-> 1500],
    [note |-> <<"E", "2">>, center |-> 65926, width |-> 1500],
    [note |-> <<"F", "2">>, center |-> 69846, width |-> 1500],
    [note |-> <<"F", "#", "2">>, center |-> 73999, width |-> 1500],
    [note |-> <<"G", "2">>, center |-> 78399, width |-> 1500],
    [note |-> <<"G", "#", "2">>, center |-> 83061, width |-> 1500],
    [note |-> <<"A", "2">>, center |-> 88000, width |-> 1500],
    [note |-> <<"A", "#", "2">>, center |-> 93233, width |-> 1500],
    [note |-> <<"B", "2">>, center |-> 98777, width |-> 1500],
    [note |-> <<"C", "-", "1">>, center |-> 13081, width |-> 800],
    [note |-> <<"C", "#", "-", "1">>, center |-> 13859, width |-> 800],
    [note |-> <<"D", "-", "1">>, center |-> 14683, width |-> 800],
    [note |-> <<"D", "#", "-", "1">>, center |-> 15556, width |-> 800],
    [note |-> <<"E", "-", "1">>, center |-> 16481, width |-> 800],
    [note |-> <<"F", "-", "1">>, center |-> 17461, width |-> 800],
    [note |-> <<"F", "#", "-", "1">>, center |-> 18500, width |-> 800],
    [note |-> <<"G", "-", "1">>, center |-> 19600, width |-> 800],
    [note |-> <<"G", "#", "-", "1">>, center |-> 20765, width |-> 800],
    [note |-> <<"A", "-", "1">>, center |-> 22000, width |-> 800],
    [note |-> <<"A", "#", "-", "1">>, center |-> 23308, width |-> 800],
    [note |-> <<"B", "-", "1">>, center |-> 24694, width |-> 800]
>>

Digits == {"0", "1", "2", "3", "4", "5", "6", "7", "8", "9"}

\* the characters of a name joined into the string
RECURSIVE Join(_)
Join(chars) == IF Len(chars) = 0 THEN "" ELSE Head(chars) \o Join(Tail(chars))

\* parseInt of one decimal digit
DigitValue(char) ==
    CASE char = "0" -> 0 [] char = "1" -> 1 [] char = "2" -> 2 [] char = "3" -> 3
      [] char = "4" -> 4 [] char = "5" -> 5 [] char = "6" -> 6 [] char = "7" -> 7
      [] char = "8" -> 8 [] char = "9" -> 9

\* parseInt(noteName.slice(-1))
Octave(noteName) == DigitValue(noteName[Len(noteName)])

\* note.replace(/[-\d]/g, "")
BaseNote(note) == Join(SelectSeq(note, LAMBDA char : char # "-" /\ char \notin Digits))

\* InBand as it would be without the comparison with maxFreq
InBandFromMinFreq(frequency, band) ==
    frequency.num * 100 >= (band.center - band.width) * frequency.den

\* frequency >= minFreq && frequency <= maxFreq
InBand(frequency, band) ==
    /\ frequency.num * 100 >= (band.center - band.width) * frequency.den
    /\ frequency.num * 100 <= (band.center + band.width) * frequency.den

\* FirstBand as it would be without the break that ends the loop: the last
\* band that holds the frequency is the one left assigned
LastBand(table, frequency) ==
    IF \E k \in 1..Len(table) : InBand(frequency, table[k])
    THEN CHOOSE k \in 1..Len(table) :
            /\ InBand(frequency, table[k])
            /\ \A j \in (k + 1)..Len(table) : ~InBand(frequency, table[j])
    ELSE 0

\* index of the first band of the table that holds the frequency, 0 if none:
\* the for loop over Object.entries(NOTE_FREQUENCIES) that ends at its break
FirstBand(table, frequency) ==
    IF \E k \in 1..Len(table) : InBand(frequency, table[k])
    THEN CHOOSE k \in 1..Len(table) :
            /\ InBand(frequency, table[k])
            /\ \A j \in 1..(k - 1) : ~InBand(frequency, table[j])
    ELSE 0

\* (i * sampleRate) / fftSize
BinFrequency(i, rate, size) == Rat(i * rate, size)

----------------------------------------------------------------------------
(* calculateCents.  Math.round(1200 * Math.log2(ratio)) is n exactly when    *)
(* 2^((n - 0.5) / 1200) <= ratio < 2^((n + 0.5) / 1200).  The boundaries     *)
(* for n = -60 .. 61 are tabulated to nine decimals; the products that       *)
(* compare a ratio with a boundary exceed 32 bits and are formed in three     *)
(* 15-bit limbs.                                                             *)

CentsScale == 1000000000

\* 2^((n - 0.5) / 1200) * CentsScale for n = -60 .. 61
HalfCentBoundaries == <<
    965657396, 966215343, 966773612, 967332203, 967891118, 968450355,
    969009915, 969569799, 970130006, 970690537, 971251392, 971812571,
    972374074, 972935902, 973498054, 974060531, 974623333, 975186460,
    975749912, 976313691, 976877794, 977442224, 978006980, 978572062,
    979137471, 979703206, 980269268, 980835658, 981402374, 981969418,
    982536790, 983104489, 983672517, 984240872, 984809556, 985378569,
    985947910, 986517581, 987087580, 987657909, 988228568, 988799556,
    989370874, 989942522, 990514500, 991086809, 991659449, 992232419,
    992805720, 993379353, 993953317, 994527613, 995102241, 995677200,
    996252492, 996828117, 997404073, 997980363, 998556986, 999133941,
    999711230, 1000288853, 1000866809, 1001445100, 1002023724, 1002602683,
    1003181976, 1003761604, 1004341567, 1004921865, 1005502499, 1006083467,
    1006664772, 1007246412, 1007828389, 1008410701, 1008993350, 1009576336,
    1010159659, 1010743318, 1011327315, 1011911650, 1012496322, 1013081331,
    1013666679, 1014252365, 1014838389, 1015424752, 1016011454, 1016598495,
    1017185875, 1017773594, 1018361653, 1018950052, 1019538790, 1020127869,
    1020717288, 1021307048, 1021897149, 1022487590, 1023078373, 1023669497,
    1024260962, 1024852769, 1025444919, 1026037410, 1026630244, 1027223420,
    1027816939, 1028410800, 1029005005, 1029599554, 1030194446, 1030789681,
    1031385261, 1031981184, 1032577452, 1033174064, 1033771022, 1034368324,
    1034965971, 1035563963
>>

Limb == 32768

\* a * b for 0 <= a, b < 2^30, most significant limb first
WideMul(a, b) ==
    LET a1 == a \div Limb
        a0 == a % Limb
        b1 == b \div Limb
        b0 == b % Limb
        low == a0 * b0
        mid == a1 * b0 + a0 * b1 + (low \div Limb)
    IN  <<a1 * b1 + (mid \div Limb), mid % Limb, low % Limb>>

WideLeq(x, y) ==
    \/ x[1] < y[1]
    \/ x[1] = y[1] /\ x[2] < y[2]
    \/ x[1] = y[1] /\ x[2] = y[2] /\ x[3] <= y[3]

\* The number of boundaries at or below target / under, found by bisection of
\* the increasing table: between lo and hi of them are.
RECURSIVE BoundariesReached(_, _, _, _)
BoundariesReached(lo, hi, under, target) ==
    IF lo = hi THEN lo
    ELSE LET mid == (lo + hi + 1) \div 2
         IN  IF WideLeq(WideMul(HalfCentBoundaries[mid], under), target)
             THEN BoundariesReached(mid, hi, under, target)
             ELSE BoundariesReached(lo, mid - 1, under, target)

\* Math.round(1200 * Math.log2(detectedFreq / perfectFreq)), for ratios within
\* the tabulated 60 cents either side (no band of the table is as wide)
calculateCents(detectedFreq, perfectFreq) ==
    LET over == detectedFreq.num * perfectFreq.den
        under == detectedFreq.den * perfectFreq.num
    IN  BoundariesReached(0, Len(HalfCentBoundaries), under,
                          WideMul(CentsScale, over)) - 61

\* (minFreq + maxFreq) / 2
PerfectFreq(band) == Rat((band.center - band.width) + (band.center + band.width), 200)

----------------------------------------------------------------------------
(* detectPitch *)

minMagnitude == 30

\* LoudLocalPeak as it would be if a bin without a neighbour on one side
\* were compared with the missing neighbour (a comparison that is false)
LoudLocalPeakInteriorOnly(data, i) ==
    LET magnitude == data[i + 1]
    IN  /\ magnitude > minMagnitude
        /\ (i # 0 /\ magnitude > data[i])
        /\ (i # Len(data) - 1 /\ magnitude > data[i + 2])

\* the condition of the if in detectPitch, for the 0-based bin i
LoudLocalPeak(data, i) ==
    LET magnitude == data[i + 1]
    IN  /\ magnitude > minMagnitude
        /\ (i = 0 \/ magnitude > data[i])
        /\ (i = Len(data) - 1 \/ magnitude > data[i + 2])

\* InVocalRange as it would be without the lower bound
InVocalRangeUpTo1000(frequency) ==
    frequency.num <= 1000 * frequency.den

\* frequency >= 65 && frequency <= 1000
InVocalRange(frequency) ==
    /\ frequency.num >= 65 * frequency.den
    /\ frequency.num <= 1000 * frequency.den

\* PitchStep as it would be with >= in the comparison of magnitudes
PitchStepLastWins(data, size, rate, i, acc) ==
    IF ~LoudLocalPeak(data, i) THEN acc
    ELSE LET magnitude == data[i + 1]
             frequency == BinFrequency(i, rate, size)
             inRange == InVocalRange(frequency)
             k == IF inRange THEN FirstBand(NOTE_FREQUENCIES_VOCAL, frequency) ELSE 0
             noteName == IF k = 0 THEN <<>> ELSE NOTE_FREQUENCIES_VOCAL[k].note
             stronger == \/ acc.strongestPitch = NoPitch
                         \/ magnitude >= acc.strongestPitch.magnitude
         IN  [strongestPitch |->
                 IF k # 0 /\ stronger
                 THEN [note |-> Join(noteName),
                       frequency |-> frequency,
                       magnitude |-> magnitude,
                       octave |-> Octave(noteName),
                       cents |-> calculateCents(frequency,
                                    PerfectFreq(NOTE_FREQUENCIES_VOCAL[k]))]
                 ELSE acc.strongestPitch,
              trace |-> Append(acc.trace,
                 [bin |-> i, frequency |-> frequency, magnitude |-> magnitude,
                  inRange |-> inRange, band |-> k])]

\* one pass of the for loop of detectPitch over bin i; acc holds strongestPitch
\* and the bins found to be peaks so far
PitchStep(data, size, rate, i, acc) ==
    IF ~LoudLocalPeak(data, i) THEN acc
    ELSE LET magnitude == data[i + 1]
             frequency == BinFrequency(i, rate, size)
             inRange == InVocalRange(frequency)
             k == IF inRange THEN FirstBand(NOTE_FREQUENCIES_VOCAL, frequency) ELSE 0
             noteName == IF k = 0 THEN <<>> ELSE NOTE_FREQUENCIES_VOCAL[k].note
             stronger == \/ acc.strongestPitch = NoPitch
                         \/ magnitude > acc.strongestPitch.magnitude
         IN  [strongestPitch |->
                 IF k # 0 /\ stronger
                 THEN [note |-> Join(noteName),
                       frequency |-> frequency,
                       magnitude |-> magnitude,
                       octave |-> Octave(noteName),
                       cents |-> calculateCents(frequency,
                                    PerfectFreq(NOTE_FREQUENCIES_VOCAL[k]))]
                 ELSE acc.strongestPitch,
              trace |-> Append(acc.trace,
                 [bin |-> i, frequency |-> frequency, magnitude |-> magnitude,
                  inRange |-> inRange, band |-> k])]

RECURSIVE PitchLoop(_, _, _, _, _)
PitchLoop(data, size, rate, i, acc) ==
    IF i >= Len(data) THEN acc
    ELSE PitchLoop(data, size, rate, i + 1, PitchStep(data, size, rate, i, acc))

detectPitch(data, size, rate) ==
    PitchLoop(data, size, rate, 0, [strongestPitch |-> NoPitch, trace |-> <<>>])

----------------------------------------------------------------------------
(* detectPitches *)

noteThreshold == 100

\* NoteLocalPeak as it would be with >= against the following bin
NoteLocalPeakOnPlateau(data, i) ==
    LET magnitude == data[i + 1]
    IN  /\ magnitude > noteThreshold
        /\ (i = 0 \/ magnitude > data[i])
        /\ (i = Len(data) - 1 \/ magnitude >= data[i + 2])

\* the condition of the if in detectPitches, for the 0-based bin i
NoteLocalPeak(data, i) ==
    LET magnitude == data[i + 1]
    IN  /\ magnitude > noteThreshold
        /\ (i = 0 \/ magnitude > data[i])
        /\ (i = Len(data) - 1 \/ magnitude > data[i + 2])

\* frequency > 80 && frequency < 1100
InMusicalRange(frequency) ==
    /\ frequency.num > 80 * frequency.den
    /\ frequency.num < 1100 * frequency.den

\* one pass of the first for loop of detectPitches over bin i; acc holds the
\* peaks array and the bins found to be peaks so far
PeakStep(data, size, rate, i, acc) ==
    IF ~NoteLocalPeak(data, i) THEN acc
    ELSE LET magnitude == data[i + 1]
             frequency == BinFrequency(i, rate, size)
             inRange == InMusicalRange(frequency)
         IN  [peaks |->
                 IF inRange
                 THEN Append(acc.peaks, [frequency |-> frequency, magnitude |-> magnitude])
                 ELSE acc.peaks,
              trace |-> Append(acc.trace,
                 [bin |-> i, frequency |-> frequency, magnitude |-> magnitude,
                  inRange |-> inRange])]

RECURSIVE PeakLoop(_, _, _, _, _)
PeakLoop(data, size, rate, i, acc) ==
    IF i >= Len(data) THEN acc
    ELSE PeakLoop(data, size, rate, i + 1, PeakStep(data, size, rate, i, acc))

\* peaks.sort((a, b) => b.magnitude - a.magnitude): stable, strongest first
RECURSIVE SortPeaks(_)
SortPeaks(unsorted) ==
    IF Len(unsorted) = 0 THEN <<>>
    ELSE LET top == CHOOSE m \in {unsorted[i].magnitude : i \in 1..Len(unsorted)} :
                        \A i \in 1..Len(unsorted) : unsorted[i].magnitude <= m
         IN  SelectSeq(unsorted, LAMBDA peak : peak.magnitude = top)
                \o SortPeaks(SelectSeq(unsorted, LAMBDA peak : peak.magnitude # top))

\* peaks.slice(0, 12)
TopPeaks(sorted) == SubSeq(sorted, 1, IF Len(sorted) < 12 THEN Len(sorted) ELSE 12)

\* MapPeaks as it would be without the includes test before the push
RECURSIVE MapPeaksKeepingRepeats(_, _, _)
MapPeaksKeepingRepeats(topPeaks, p, notes) ==
    IF p > Len(topPeaks) THEN notes
    ELSE LET k == FirstBand(NOTE_FREQUENCIES_INSTRUMENT, topPeaks[p].frequency)
             baseNote == IF k = 0 THEN "" ELSE BaseNote(NOTE_FREQUENCIES_INSTRUMENT[k].note)
         IN  MapPeaksKeepingRepeats(topPeaks, p + 1,
                IF k # 0 THEN Append(notes, baseNote) ELSE notes)

\* the second for loop of detectPitches, from the p-th of the top peaks on
RECURSIVE MapPeaks(_, _, _)
MapPeaks(topPeaks, p, notes) ==
    IF p > Len(topPeaks) THEN notes
    ELSE LET k == FirstBand(NOTE_FREQUENCIES_INSTRUMENT, topPeaks[p].frequency)
             baseNote == IF k = 0 THEN "" ELSE BaseNote(NOTE_FREQUENCIES_INSTRUMENT[k].note)
         IN  MapPeaks(topPeaks, p + 1,
                IF k # 0 /\ ~Includes(notes, baseNote) THEN Append(notes, baseNote) ELSE notes)

detectPitches(data, size, rate) ==
    LET found == PeakLoop(data, size, rate, 0, [peaks |-> <<>>, trace |-> <<>>])
        sorted == SortPeaks(found.peaks)
    IN  [detectedNotes |-> MapPeaks(TopPeaks(sorted), 1, <<>>),
         peaks |-> sorted,
         trace |-> found.trace]

----------------------------------------------------------------------------
(* One analysis of one spectrum by both detectors *)

\* byte magnitudes around the two floors
Magnitudes == {0, 30, 31, 100, 101, 255}

\* sampling rate and transform size: the recorder's defaults, and pairs whose
\* bins fall on the ends of the two frequency ranges and inside note bands
Configs == {
    [sampleRate |-> 44100, fftSize |-> 2048],
    [sampleRate |-> 33280, fftSize |-> 512],
    [sampleRate |-> 40960, fftSize |-> 512],
    [sampleRate |-> 16000, fftSize |-> 32],
    [sampleRate |-> 17600, fftSize |-> 32],
    [sampleRate |-> 14080, fftSize |-> 64],
    [sampleRate |-> 34496, fftSize |-> 512],
    [sampleRate |-> 48128, fftSize |-> 256]
}

Spectra(n) == UNION {[1..len -> Magnitudes] : len \in 0..n}

\* spectra one bin longer whose energy is in bin 2 and in bin 4, an octave
\* above it
OctavePairs(n) ==
    {[i \in 1..(n + 1) |-> IF i = 3 THEN low ELSE IF i = 5 THEN high ELSE 0] :
        low \in {101, 255}, high \in {101, 255}}

NoChord ==
    /\ activeNotes = <<>>
    /\ rootNote = "none"
    /\ matches = <<>>
    /\ scored = <<>>
    /\ chordPc = "done"
    /\ permuted = <<>>
    /\ permutedMatches = <<>>

PitchInit ==
    /\ frequencyData \in Spectra(MaxBins) \cup OctavePairs(MaxBins)
    /\ \E config \in Configs :
          /\ fftSize = config.fftSize
          /\ sampleRate = config.sampleRate
    /\ strongestPitch = NoPitch
    /\ pitchTrace = <<>>
    /\ pitchPc = "pending"
    /\ detectedNotes = <<>>
    /\ peaks = <<>>
    /\ notesTrace = <<>>
    /\ notesPc = "pending"
    /\ NoChord
    /\ NoRecorder
    /\ NoDisplay
    /\ NoTracker
    /\ NoSession

\* a call of detectPitch on the spectrum
DetectPitchCall ==
    /\ pitchPc = "pending"
    /\ LET result == detectPitch(frequencyData, fftSize, sampleRate)
       IN  /\ strongestPitch' = result.strongestPitch
           /\ pitchTrace' = result.trace
    /\ pitchPc' = "done"
    /\ UNCHANGED <<chordVars, spectrumVars, notesVars, otherVars>>

\* a call of detectPitches on the spectrum
DetectPitchesCall ==
    /\ notesPc = "pending"
    /\ LET result == detectPitches(frequencyData, fftSize, sampleRate)
       IN  /\ detectedNotes' = result.detectedNotes
           /\ peaks' = result.peaks
           /\ notesTrace' = result.trace
    /\ notesPc' = "done"
    /\ UNCHANGED <<chordVars, spectrumVars, pitchVars, otherVars>>

PitchNext == DetectPitchCall \/ DetectPitchesCall

PitchSpec == PitchInit /\ [][PitchNext]_vars

----------------------------------------------------------------------------
(* AudioRecorder: analyzeAudio, called by the animation loop and by the      *)
(* script processor on the analyser's current byte spectrum                  *)

\* most analysis ticks in a run
MaxTicks == 3

\* bins of a recorder frame; the analyser has fftSize / 2 of them
FrameLength == 10

\* what Date.now() returns at the first tick: any time more than 200 ms
\* after the 0 that lastUpdateTimeRef starts with
StartTime == 100000

\* ms between one reading of Date.now() and the next
Delays == {16, 200, 201}

\* bins that carry energy in the frames: 129.2 Hz (C) and 193.8 Hz (G) at
\* 44100 / 2048
LoudBins == {6, 9}

Frames ==
    {[i \in 1..FrameLength |-> IF i - 1 \in LoudBins THEN level[i - 1] ELSE 0] :
        level \in [LoudBins -> {0, 101, 255}]}

RECURSIVE Sum(_, _)
\* the for loop that adds dataArray[0 .. bufferLength - 1]
Sum(dataArray, bufferLength) ==
    IF bufferLength = 0 THEN 0
    ELSE Sum(dataArray, bufferLength - 1) + dataArray[bufferLength]

\* the root published with a note list as it would be if the strongest
\* (first detected) note were taken
FirstNote(notes) == notes[1]

RECURSIVE LowestFrom(_, _, _)
\* the for loop from i on, lowestNote being the lowest so far
LowestFrom(notes, i, lowestNote) ==
    IF i >= Len(notes) THEN lowestNote
    ELSE LowestFrom(notes, i + 1,
            IF IndexOf(getAllNotes, notes[i + 1]) < IndexOf(getAllNotes, lowestNote)
            THEN notes[i + 1] ELSE lowestNote)

\* the lowest note by position in the chromatic scale
LowestNote(notes) == LowestFrom(notes, 1, notes[1])

\* analyzeAudio(dataArray, bufferLength) when Date.now() returns time
analyzeAudio(dataArray, bufferLength, time) ==
    LET sum == Sum(dataArray, bufferLength)
    IN  /\ volume' = Rat(sum, bufferLength * 256)
        /\ now' = time
        /\ ticks' = ticks + 1
        /\ IF sum > 20 * bufferLength /\ time - lastUpdateTimeRef > 200
           THEN LET detected == detectPitches(dataArray, fftSize, sampleRate).detectedNotes
                IN  /\ detectedNotes' = detected
                    /\ noteDetectionTime' = time
                    /\ IF detected # detectedNotesRef
                       THEN /\ detectedNotesRef' = detected
                            /\ activeNotes' = detected
                            /\ rootNote' = IF Len(detected) > 0
                                           THEN LowestNote(detected) ELSE "none"
                            /\ lastUpdateTimeRef' = time
                            /\ tickKind' = "changed"
                       ELSE /\ UNCHANGED <<detectedNotesRef, activeNotes, rootNote,
                                           lastUpdateTimeRef>>
                            /\ tickKind' = "same"
           ELSE /\ UNCHANGED <<detectedNotes, noteDetectionTime, detectedNotesRef,
                               activeNotes, rootNote, lastUpdateTimeRef>>
                /\ tickKind' = IF sum > 20 * bufferLength THEN "throttled" ELSE "quiet"
        /\ UNCHANGED <<matches, scored, chordPc, permuted, permutedMatches,
                       spectrumVars, pitchVars, peaks, notesTrace, notesPc,
                       displayVars, trackerVars>>

RecorderInit ==
    /\ now = StartTime
    /\ lastUpdateTimeRef = 0
    /\ detectedNotesRef = <<>>
    /\ volume = [num |-> 0, den |-> 1]
    /\ noteDetectionTime = -1
    /\ ticks = 0
    /\ tickKind = "none"
    /\ activeNotes = <<>>
    /\ rootNote = "none"
    /\ matches = <<>>
    /\ scored = <<>>
    /\ chordPc = "done"
    /\ permuted = <<>>
    /\ permutedMatches = <<>>
    /\ NoSpectrum
    /\ NoDisplay
    /\ NoTracker
    /\ NoSession

\* one turn of draw, the requestAnimationFrame callback
DrawTick ==
    /\ ticks < MaxTicks
    /\ \E dataArray \in Frames, delay \in Delays :
          analyzeAudio(dataArray, Len(dataArray), now + delay)
    /\ UNCHANGED sessionVars

\* one onaudioprocess callback of the script processor
AudioProcessTick ==
    /\ ticks < MaxTicks
    /\ \E dataArray \in Frames, delay \in Delays :
          analyzeAudio(dataArray, Len(dataArray), now + delay)
    /\ UNCHANGED sessionVars

RecorderNext == DrawTick \/ AudioProcessTick

RecorderSpec == RecorderInit /\ [][RecorderNext]_vars

----------------------------------------------------------------------------
(* AudioRecorder: startRecording, stopRecording and the callbacks they       *)
(* schedule.  The button runs startRecording while isRecording is false and  *)
(* stopRecording while it is true.  Each await of startRecording ends in a   *)
(* later step; an animation frame runs draw unless it has been cancelled.    *)

\* most clicks on the button while it reads Start Recording
MaxStarts == 2

\* the spectra of a session: silence, a peak at bin 0 (loud, no note), and a
\* peak at bin 9 (G) with a weaker one at bin 6 (C)
SessionFrames ==
    {[i \in 1..FrameLength |-> 0],
     [i \in 1..FrameLength |-> IF i - 1 = 0 THEN 255 ELSE 0],
     [i \in 1..FrameLength |-> IF i - 1 = 9 THEN 255 ELSE IF i - 1 = 6 THEN 101 ELSE 0]}

\* ms between one reading of Date.now() and the next
SessionDelays == {16, 201}

\* cleanupAudio
cleanupAudio ==
    /\ liveStreams' = liveStreams \ {mediaStreamRef}
    /\ mediaStreamRef' = 0
    /\ connectedSources' = connectedSources \ {sourceNodeRef}
    /\ sourceNodeRef' = 0
    /\ processorConnected' = FALSE
    /\ onaudioprocess' = FALSE
    /\ pendingFrames' = pendingFrames \ {animationRef}
    /\ animationRef' = 0
    /\ isRecording' = FALSE

\* stopRecording as it would be without setRootNote(null)
stopRecordingKeepingRoot ==
    /\ cleanupAudio
    /\ activeNotes' = <<>>
    /\ UNCHANGED rootNote

\* stopRecording
stopRecording ==
    /\ cleanupAudio
    /\ activeNotes' = <<>>
    /\ rootNote' = "none"

\* one turn of draw in a loop: it requests the next frame of the loop, then
\* analyses the spectrum
draw(loop, dataArray, time) ==
    /\ animationRef' = loop
    /\ pendingFrames' = pendingFrames \cup {loop}
    /\ analyzeAudio(dataArray, Len(dataArray), time)

SessionInit ==
    /\ now = StartTime
    /\ lastUpdateTimeRef = 0
    /\ detectedNotesRef = <<>>
    /\ volume = [num |-> 0, den |-> 1]
    /\ noteDetectionTime = -1
    /\ ticks = 0
    /\ tickKind = "none"
    /\ NoChord
    /\ NoSpectrum
    /\ NoDisplay
    /\ NoTracker
    /\ NoSession

\* a click on Start Recording: startRecording up to its first await, with
\* the part of initAudioContext that runs before it
ClickStart ==
    /\ ~isRecording
    /\ Len(startPhase) < MaxStarts
    /\ audioContextRef' = TRUE
    /\ startPhase' = Append(startPhase, "init")
    /\ lastClick' = "start"
    /\ UNCHANGED <<isRecording, mediaStreamRef, sourceNodeRef, liveStreams,
                   connectedSources, processorConnected, onaudioprocess,
                   animationRef, pendingFrames>>
    /\ UNCHANGED <<chordVars, spectrumVars, pitchVars, notesVars, recorderVars,
                   displayVars, trackerVars>>

\* initAudioContext has returned true: startRecording asks for the microphone
MicrophoneRequested ==
    /\ \E k \in 1..Len(startPhase) :
          /\ startPhase[k] = "init"
          /\ startPhase' = [startPhase EXCEPT ![k] = "mic"]
    /\ UNCHANGED <<isRecording, audioContextRef, mediaStreamRef, sourceNodeRef,
                   liveStreams, connectedSources, processorConnected,
                   onaudioprocess, animationRef, pendingFrames, lastClick>>
    /\ UNCHANGED <<chordVars, spectrumVars, pitchVars, notesVars, recorderVars,
                   displayVars, trackerVars>>

\* getUserMedia has given a stream: the rest of startRecording, with
\* setupScriptProcessor and with startVisualization and its first draw
MicrophoneGranted ==
    /\ ticks < MaxTicks
    /\ \E k \in 1..Len(startPhase) :
          /\ startPhase[k] = "mic"
          /\ startPhase' = [startPhase EXCEPT ![k] = "done"]
          /\ mediaStreamRef' = k
          /\ liveStreams' = liveStreams \cup {k}
          /\ sourceNodeRef' = k
          /\ connectedSources' = connectedSources \cup {k}
          /\ \E dataArray \in SessionFrames, delay \in SessionDelays :
                draw(k, dataArray, now + delay)
    /\ processorConnected' = TRUE
    /\ onaudioprocess' = TRUE
    /\ isRecording' = TRUE
    /\ UNCHANGED <<audioContextRef, lastClick>>

\* getUserMedia has failed: the catch block of startRecording
MicrophoneDenied ==
    /\ \E k \in 1..Len(startPhase) :
          /\ startPhase[k] = "mic"
          /\ startPhase' = [startPhase EXCEPT ![k] = "failed"]
    /\ cleanupAudio
    /\ UNCHANGED <<audioContextRef, lastClick>>
    /\ UNCHANGED <<chordVars, spectrumVars, pitchVars, notesVars, recorderVars,
                   displayVars, trackerVars>>

\* an animation frame that was requested and not cancelled runs draw
AnimationFrame ==
    /\ ticks < MaxTicks
    /\ \E loop \in pendingFrames, dataArray \in SessionFrames, delay \in SessionDelays :
          draw(loop, dataArray, now + delay)
    /\ UNCHANGED <<isRecording, startPhase, audioContextRef, mediaStreamRef,
                   sourceNodeRef, liveStreams, connectedSources, processorConnected,
                   onaudioprocess, lastClick>>

\* the script processor, connected and with its callback, calls onaudioprocess
AudioProcess ==
    /\ ticks < MaxTicks
    /\ processorConnected
    /\ onaudioprocess
    /\ \E dataArray \in SessionFrames, delay \in SessionDelays :
          analyzeAudio(dataArray, Len(dataArray), now + delay)
    /\ UNCHANGED sessionVars

\* a click on Stop Recording
ClickStop ==
    /\ isRecording
    /\ stopRecording
    /\ lastClick' = "stop"
    /\ UNCHANGED <<startPhase, audioContextRef>>
    /\ UNCHANGED <<matches, scored, chordPc, permuted, permutedMatches>>
    /\ UNCHANGED <<spectrumVars, pitchVars, notesVars, recorderVars, displayVars,
                   trackerVars>>

SessionNext ==
    \/ ClickStart
    \/ MicrophoneRequested
    \/ MicrophoneGranted
    \/ MicrophoneDenied
    \/ AnimationFrame
    \/ AudioProcess
    \/ ClickStop

SessionSpec == SessionInit /\ [][SessionNext]_vars

----------------------------------------------------------------------------
(* VocalPitchDisplay: the effect on [pitch] and its 800 ms timeout.  The      *)
(* timeout is taken to run when it is due: time does not pass a pending       *)
(* timeout's due time before its callback has run.                            *)

\* most changes of the pitch prop in a run
MaxFeeds == 9

\* silentFor stops counting here
MaxSilence == 1200

\* ms that pass in one step of the clock
TimeSteps == {300, 500}

\* pitches the display is fed: what detectPitch returns for a peak at
\* 65.5 Hz (C2, +2 cents), 65 Hz (C2, -11), 67.375 Hz (C2, +51) and
\* 130 Hz (C3, -11)
DisplayPitches ==
    {detectPitch(<<0, 255>>, 512, 33536).strongestPitch,
     detectPitch(<<0, 255>>, 512, 33280).strongestPitch,
     detectPitch(<<0, 255>>, 512, 34496).strongestPitch,
     detectPitch(<<0, 0, 255>>, 512, 33280).strongestPitch}

\* CloseToDisplayed as it would be without the comparison of the notes
CloseInCentsOnly(newPitch) ==
    /\ displayPitch # NoPitch
    /\ Abs(displayPitch.cents - newPitch.cents) < 15

\* the new pitch is close to the one displayed
CloseToDisplayed(newPitch) ==
    /\ displayPitch # NoPitch
    /\ displayPitch.note = newPitch.note
    /\ Abs(displayPitch.cents - newPitch.cents) < 15

\* the effect as it would be without the cleanup that clears the timeout
PitchEffectWithoutCleanup(newPitch) ==
    IF newPitch # NoPitch
    THEN /\ displayPitch' = newPitch
         /\ IF CloseToDisplayed(newPitch)
            THEN /\ stableTimer' = stableTimer + 1
                 /\ isStable' = IF stableTimer > 5 THEN TRUE ELSE isStable
            ELSE /\ stableTimer' = 0
                 /\ isStable' = FALSE
         /\ UNCHANGED clearTimer
    ELSE /\ clearTimer' = 800
         /\ UNCHANGED <<displayPitch, isStable, stableTimer>>

\* the effect for a new value of the pitch prop, after the cleanup of the
\* effect before it
PitchEffect(newPitch) ==
    IF newPitch # NoPitch
    THEN /\ displayPitch' = newPitch
         /\ IF CloseToDisplayed(newPitch)
            THEN /\ stableTimer' = stableTimer + 1
                 /\ isStable' = IF stableTimer > 5 THEN TRUE ELSE isStable
            ELSE /\ stableTimer' = 0
                 /\ isStable' = FALSE
         /\ clearTimer' = -1
    ELSE /\ clearTimer' = 800
         /\ UNCHANGED <<displayPitch, isStable, stableTimer>>

\* the display after its first render, with pitch null: the effect has set
\* the timeout
DisplayInit ==
    /\ pitch = NoPitch
    /\ displayPitch = NoPitch
    /\ isStable = FALSE
    /\ stableTimer = 0
    /\ clearTimer = 800
    /\ silentFor = 0
    /\ feeds = 0
    /\ run = 0
    /\ NoChord
    /\ NoSpectrum
    /\ NoRecorder
    /\ NoTracker
    /\ NoSession

\* App passes a new PitchInfo object as the pitch prop
PitchArrives ==
    /\ feeds < MaxFeeds
    /\ \E newPitch \in DisplayPitches :
          /\ pitch' = newPitch
          /\ PitchEffect(newPitch)
          /\ run' = IF /\ pitch # NoPitch
                       /\ pitch.note = newPitch.note
                       /\ Abs(pitch.cents - newPitch.cents) < 15
                    THEN run + 1 ELSE 1
    /\ silentFor' = 0
    /\ feeds' = feeds + 1
    /\ UNCHANGED <<chordVars, spectrumVars, pitchVars, notesVars, recorderVars,
                   trackerVars, sessionVars>>

\* App passes null as the pitch prop after a PitchInfo; null after null is
\* no change of the prop and runs no effect
PitchStops ==
    /\ feeds < MaxFeeds
    /\ pitch # NoPitch
    /\ pitch' = NoPitch
    /\ PitchEffect(NoPitch)
    /\ run' = 0
    /\ silentFor' = 0
    /\ feeds' = feeds + 1
    /\ UNCHANGED <<chordVars, spectrumVars, pitchVars, notesVars, recorderVars,
                   trackerVars, sessionVars>>

\* the callback of the timeout
ClearTimeout ==
    /\ clearTimer = 0
    /\ displayPitch' = NoPitch
    /\ isStable' = FALSE
    /\ stableTimer' = 0
    /\ clearTimer' = -1
    /\ UNCHANGED <<pitch, silentFor, feeds, run>>
    /\ UNCHANGED <<chordVars, spectrumVars, pitchVars, notesVars, recorderVars,
                   trackerVars, sessionVars>>

\* time passes, up to the due time of a pending timeout
TimePasses ==
    /\ clearTimer # 0
    /\ \E step \in TimeSteps :
          LET elapsed == IF clearTimer # -1 /\ clearTimer < step THEN clearTimer ELSE step
              silence == silentFor + elapsed
          IN  /\ clearTimer' = IF clearTimer = -1 THEN -1 ELSE clearTimer - elapsed
              /\ silentFor' = IF pitch # NoPitch THEN 0
                              ELSE IF silence > MaxSilence THEN MaxSilence ELSE silence
    /\ UNCHANGED <<pitch, displayPitch, isStable, stableTimer, feeds, run>>
    /\ UNCHANGED <<chordVars, spectrumVars, pitchVars, notesVars, recorderVars,
                   trackerVars, sessionVars>>

DisplayNext == PitchArrives \/ PitchStops \/ ClearTimeout \/ TimePasses

DisplaySpec == DisplayInit /\ [][DisplayNext]_vars

----------------------------------------------------------------------------
(* Monophonic pitch tracker: the recorder of the vocal application, which     *)
(* is given one spectrum per analysis tick, calls detectPitch on it and       *)
(* reports an estimate, or none, that App sets as the pitch prop of           *)
(* VocalPitchDisplay.  Its state is the history window and the start of the   *)
(* silence timer; the estimate last reported is App's pitch state.            *)

\* most calls of the tracker in a run
MaxCalls == 6

\* the clock stops this many ms after the start
MaxClock == 2000

\* the spectra the tracker is given, bins 0 to 2 at 67.375 Hz a bin: bin 1 is
\* within the band of C2, bin 2 (134.75 Hz) is within the vocal range and
\* within no band
TrackerFrames == [1..3 -> {0, 255}]

\* mean byte magnitude at and above which a frame is loud
VolumeFloor == 20

\* capacity of the history window
HistoryCapacity == 5

\* accepted samples from which a held note is reported on every frame
EmitWindow == 3

\* ms of unbroken silence after which the history is cleared
DecayDuration == 800

RatAdd(a, b) == Rat(a.num * b.den + b.num * a.den, a.den * b.den)

RECURSIVE SumOfFrequencies(_, _)
SumOfFrequencies(window, n) ==
    IF n = 0 THEN Rat(0, 1)
    ELSE RatAdd(SumOfFrequencies(window, n - 1), window[n].frequency)

RECURSIVE SumOfMagnitudes(_, _)
SumOfMagnitudes(window, n) ==
    IF n = 0 THEN 0 ELSE SumOfMagnitudes(window, n - 1) + window[n].magnitude

\* the averaged estimate: note and octave of the most recent sample, mean
\* frequency and magnitude of the window, cents of the mean frequency against
\* the most recent sample's reference lastSample.freq / 2^(lastSample.cents/1200)
Averaged(window) ==
    LET lastSample == window[Len(window)]
        total == SumOfFrequencies(window, Len(window))
        mean == Rat(total.num, total.den * Len(window))
    IN  [note |-> lastSample.note,
         frequency |-> mean,
         magnitude |-> Rat(SumOfMagnitudes(window, Len(window)), Len(window)),
         octave |-> lastSample.octave,
         cents |-> lastSample.cents + calculateCents(mean, lastSample.frequency)]

\* the tracker reports an estimate, or none: App sets it as the pitch prop and
\* the display's effect runs; none after none is no change of the prop
Report(estimate) ==
    IF estimate = NoPitch /\ pitch = NoPitch
    THEN UNCHANGED displayVars
    ELSE /\ pitch' = estimate
         /\ PitchEffect(estimate)
         /\ run' = IF estimate = NoPitch THEN 0
                   ELSE IF /\ pitch # NoPitch
                           /\ pitch.note = estimate.note
                           /\ Abs(pitch.cents - estimate.cents) < 15
                        THEN run + 1 ELSE 1
         /\ silentFor' = 0
         /\ feeds' = feeds + 1

\* a call with magnitude below the floor
BelowFloor ==
    IF history = <<>>
    THEN UNCHANGED <<trackerVars, displayVars>>
    ELSE LET start == IF silenceStart = -1 THEN now ELSE silenceStart
         IN  IF now - start > DecayDuration
             THEN /\ history' = <<>>
                  /\ silenceStart' = -1
                  /\ Report(NoPitch)
             ELSE /\ silenceStart' = start
                  /\ UNCHANGED <<history, displayVars>>

\* a call with magnitude at or above the floor for which the mapper gave a note
Accept(estimate) ==
    LET appended == Append(history, estimate)
        window == IF Len(appended) > HistoryCapacity THEN Tail(appended) ELSE appended
    IN  /\ history' = window
        /\ silenceStart' = -1
        /\ IF Len(window) >= EmitWindow \/ estimate.note # pitch.note
           THEN Report(Averaged(window))
           ELSE UNCHANGED displayVars

\* a call with magnitude at or above the floor for which the mapper gave no note
Ignore == UNCHANGED <<trackerVars, displayVars>>

TrackerInit ==
    /\ history = <<>>
    /\ silenceStart = -1
    /\ now = StartTime
    /\ lastUpdateTimeRef = 0
    /\ detectedNotesRef = <<>>
    /\ volume = Rat(0, 1)
    /\ noteDetectionTime = -1
    /\ ticks = 0
    /\ tickKind = "quiet"
    /\ frequencyData = <<>>
    /\ fftSize = 512
    /\ sampleRate = 34496
    /\ strongestPitch = NoPitch
    /\ pitchTrace = <<>>
    /\ pitchPc = "done"
    /\ detectedNotes = <<>>
    /\ peaks = <<>>
    /\ notesTrace = <<>>
    /\ notesPc = "done"
    /\ pitch = NoPitch
    /\ displayPitch = NoPitch
    /\ isStable = FALSE
    /\ stableTimer = 0
    /\ clearTimer = 800
    /\ silentFor = 0
    /\ feeds = 0
    /\ run = 0
    /\ NoChord
    /\ NoSession

\* one call of the tracker on the spectrum of a tick
TrackerCall ==
    /\ ticks < MaxCalls
    /\ \E frame \in TrackerFrames :
          LET loud == Sum(frame, Len(frame)) >= VolumeFloor * Len(frame)
              result == detectPitch(frame, fftSize, sampleRate)
          IN  /\ frequencyData' = frame
              /\ IF ~loud
                 THEN /\ strongestPitch' = NoPitch
                      /\ pitchTrace' = <<>>
                      /\ tickKind' = "quiet"
                      /\ BelowFloor
                 ELSE /\ strongestPitch' = result.strongestPitch
                      /\ pitchTrace' = result.trace
                      /\ IF result.strongestPitch # NoPitch
                         THEN /\ tickKind' = "accepted"
                              /\ Accept(result.strongestPitch)
                         ELSE /\ tickKind' = "ignored"
                              /\ Ignore
    /\ ticks' = ticks + 1
    /\ UNCHANGED <<fftSize, sampleRate, pitchPc, now, lastUpdateTimeRef,
                   detectedNotesRef, volume, noteDetectionTime>>
    /\ UNCHANGED <<chordVars, notesVars, sessionVars>>

\* time passes between two calls, up to the due time of the display's timeout
ClockAdvances ==
    /\ clearTimer # 0
    /\ now < StartTime + MaxClock
    /\ \E step \in TimeSteps :
          LET elapsed == IF clearTimer # -1 /\ clearTimer < step THEN clearTimer ELSE step
              silence == silentFor + elapsed
          IN  /\ now' = now + elapsed
              /\ clearTimer' = IF clearTimer = -1 THEN -1 ELSE clearTimer - elapsed
              /\ silentFor' = IF pitch # NoPitch THEN 0
                              ELSE IF silence > MaxSilence THEN MaxSilence ELSE silence
    /\ UNCHANGED <<pitch, displayPitch, isStable, stableTimer, feeds, run>>
    /\ UNCHANGED <<lastUpdateTimeRef, detectedNotesRef, volume, noteDetectionTime,
                   ticks, tickKind>>
    /\ UNCHANGED <<chordVars, spectrumVars, pitchVars, notesVars, trackerVars,
                   sessionVars>>

TrackerNext == TrackerCall \/ ClockAdvances \/ ClearTimeout

TrackerSpec == TrackerInit /\ [][TrackerNext]_vars

----------------------------------------------------------------------------
(* Claims about the chord matcher, checked under ChordSpec *)

SameNotes(seq, set) == {seq[i] : i \in 1..Len(seq)} = set

\* the root of a returned match: every template starts with interval 0, so
\* the first chord note is the root, and fullName is the root followed by the
\* suffix of the template the match is named after
HasRoot(m, root) ==
    /\ m.notes[1] = root
    /\ \E t \in 1..Len(chordDatabase) :
          /\ chordDatabase[t].name = m.name
          /\ m.fullName = root \o chordDatabase[t].suffix

\* the visited pair s is among the returned matches
Returned(s) ==
    \E i \in 1..Len(matches) :
        /\ matches[i].name = s.chordType
        /\ matches[i].notes = s.chordNotes

\* C1: with active notes C, E, G and no root hint, the first match returned is
\* C major with a match percentage of exactly 100.
C1_CMajorRanksFirst ==
    (chordPc = "done" /\ SameNotes(activeNotes, {"C", "E", "G"}) /\ rootNote = "none")
        => /\ Len(matches) >= 1
           /\ matches[1].name = "major"
           /\ matches[1].fullName = "C"
           /\ matches[1].notes = <<"C", "E", "G">>
           /\ matches[1].matchPercentage = Rat(100, 1)

\* C1 witness: C, E, G without a hint has been matched and a second candidate
\* is capped at 100 as well
C1_Witness ==
    /\ chordPc = "done"
    /\ activeNotes = <<"C", "E", "G">>
    /\ rootNote = "none"
    /\ Len(matches) >= 2
    /\ matches[2].matchPercentage = Rat(100, 1)
    /\ matches[2].name # "major"

\* C2: with a root hint r and active notes, every pair tried and every match
\* returned has root r; with no hint all 12 pitch classes are tried as root.
C2_RootHintRestrictsRoots ==
    (chordPc = "done" /\ Len(activeNotes) > 0)
        => /\ rootNote # "none" =>
                /\ \A p \in 1..Len(scored) : scored[p].root = rootNote
                /\ \A i \in 1..Len(matches) : HasRoot(matches[i], rootNote)
           /\ rootNote = "none" =>
                {scored[p].root : p \in 1..Len(scored)} = PitchClasses

\* C2 witness: a hinted match produced candidates although the active notes
\* also fit chords on other roots
C2_Witness ==
    /\ chordPc = "done"
    /\ activeNotes = <<"C", "E", "G">>
    /\ rootNote = "E"
    /\ Len(matches) > 0

\* C3: with no active notes the result is empty and no template was visited.
C3_EmptyShortCircuits ==
    (chordPc = "done" /\ Len(activeNotes) = 0)
        => /\ matches = <<>>
           /\ scored = <<>>

\* C3 witness: the effect has run on an empty note list
C3_Witness ==
    /\ chordPc = "done"
    /\ activeNotes = <<>>
    /\ rootNote = "none"

\* C4: a visited pair is returned exactly when its unclamped percentage
\* 100 * matchScore / totalPossibleScore is strictly above 30.
C4_ThresholdStrictlyAbove30 ==
    chordPc = "done"
        => LET above == {p \in 1..Len(scored) :
                            100 * scored[p].matchScore2 > 30 * 2 * scored[p].totalPossibleScore}
           IN  /\ {<<matches[i].name, matches[i].notes>> : i \in 1..Len(matches)}
                    = {<<scored[p].chordType, scored[p].chordNotes>> : p \in above}
               /\ Len(matches) = Cardinality(above)

\* C4 witness: C alone against C major6 scores 1.5 of 5, exactly 30 percent,
\* and is not returned
C4_Witness ==
    /\ chordPc = "done"
    /\ activeNotes = <<"C">>
    /\ \E p \in 1..Len(scored) :
          /\ scored[p].root = "C"
          /\ scored[p].chordType = "major6"
          /\ scored[p].matchScore2 = 3
          /\ scored[p].totalPossibleScore = 5
          /\ ~Returned(scored[p])

\* C5: the returned list is non-increasing in matchPercentage.
C5_SortedDescending ==
    chordPc = "done"
        => \A i \in 1..(Len(matches) - 1) :
              RatLeq(matches[i + 1].matchPercentage, matches[i].matchPercentage)

\* C5 witness: a result with different percentages whose best candidate was
\* not the first pair to pass the threshold
C5_Witness ==
    /\ chordPc = "done"
    /\ Len(matches) >= 3
    /\ RatLess(matches[Len(matches)].matchPercentage, matches[1].matchPercentage)
    /\ \E p, q \in 1..Len(scored) :
          /\ p < q
          /\ Returned(scored[p])
          /\ RatLess(scored[p].matchPercentage, scored[q].matchPercentage)
          /\ RatLess(scored[p].matchPercentage, Rat(100, 1))

\* C6: every returned matchPercentage lies within [0, 100].
C6_PercentageWithin0And100 ==
    chordPc = "done"
        => \A i \in 1..Len(matches) :
              /\ 0 <= matches[i].matchPercentage.num
              /\ matches[i].matchPercentage.num <= 100 * matches[i].matchPercentage.den

\* C6 witness: C major against C, E, G scores 5.5 of 4 and is returned
C6_Witness ==
    /\ chordPc = "done"
    /\ \E p \in 1..Len(scored) :
          /\ scored[p].matchScore2 = 11
          /\ scored[p].totalPossibleScore = 4
          /\ Returned(scored[p])

\* pitch-class indices of the active notes
ActiveIndices == {IndexOf(getAllNotes, activeNotes[i]) : i \in 1..Len(activeNotes)}

\* pitch-class index of the chord note at position k of a visited pair
PositionIndex(s, k) == (IndexOf(getAllNotes, s.root) + s.intervals[k]) % 12

QualityIntervals == {3, 4, 10, 11}

\* the reference total of a visited pair
ReferenceTotal(s) ==
    Len(s.intervals)
        + Cardinality({k \in 1..Len(s.intervals) : s.intervals[k] \in QualityIntervals})

\* the reference match score of a visited pair, in half points, for the
\* active pitch-class indices
ReferenceScore2(s, active) ==
    LET present == {k \in 1..Len(s.intervals) : PositionIndex(s, k) \in active}
        chord == {PositionIndex(s, k) : k \in 1..Len(s.intervals)}
    IN  2 * (Cardinality(present)
             + Cardinality({k \in present : s.intervals[k] \in QualityIntervals}))
        + Cardinality(active \cap chord)
        - Cardinality(active \ chord)

\* C7: for every visited pair the computed total and match score equal the
\* reference: weight 2 on intervals 3, 4, 10, 11 and 1 elsewhere, plus 0.5 per
\* active note in the chord and minus 0.5 per active note outside it.
C7_ScoreEqualsReference ==
    chordPc = "done"
        => LET active == ActiveIndices
           IN  \A p \in 1..Len(scored) :
                  LET total == ReferenceTotal(scored[p])
                      score2 == ReferenceScore2(scored[p], active)
                  IN  /\ scored[p].totalPossibleScore = total
                      /\ scored[p].matchScore2 = score2
                      /\ scored[p].matchPercentage.num * 2 * total
                            = 100 * score2 * scored[p].matchPercentage.den

\* C7 witness: C 7#9 was scored with its compound interval 15 (D#) sounding,
\* together with a note outside the chord
C7_Witness ==
    /\ chordPc = "done"
    /\ activeNotes = <<"C", "D", "D#">>
    /\ \E p \in 1..Len(scored) :
          /\ scored[p].root = "C"
          /\ scored[p].chordType = "7#9"
          /\ scored[p].totalPossibleScore = 7
          /\ scored[p].matchScore2 = 5
----------------------------------------------------------------------------
(* Claims about the peak search, checked under PitchSpec *)

\* bin i (0-based) of the spectrum is strictly above the floor and strictly
\* above each neighbour it has
StrictLocalMaximum(i, floor) ==
    /\ frequencyData[i + 1] > floor
    /\ (i > 0 => frequencyData[i + 1] > frequencyData[i])
    /\ (i < Len(frequencyData) - 1 => frequencyData[i + 1] > frequencyData[i + 2])

Bins == 0..(Len(frequencyData) - 1)

\* the trace lists exactly the strict local maxima above the floor, in bin
\* order, each with its magnitude and the frequency bin * sampleRate / fftSize
TraceIsLocalMaxima(trace, floor) ==
    /\ {trace[t].bin : t \in 1..Len(trace)} = {i \in Bins : StrictLocalMaximum(i, floor)}
    /\ \A t \in 1..(Len(trace) - 1) : trace[t].bin < trace[t + 1].bin
    /\ \A t \in 1..Len(trace) :
          /\ trace[t].magnitude = frequencyData[trace[t].bin + 1]
          /\ trace[t].frequency.num * fftSize
                = trace[t].bin * sampleRate * trace[t].frequency.den
    /\ \A i \in Bins :
          (i + 1 \in Bins /\ frequencyData[i + 1] = frequencyData[i + 2])
              => \A t \in 1..Len(trace) : trace[t].bin # i /\ trace[t].bin # i + 1

\* C8: in both modes a bin is treated as a peak exactly when it is strictly
\* above the mode's floor and strictly above each neighbour it has, so no bin
\* of a plateau is a peak, and its frequency is bin * sampleRate / fftSize.
C8_PeakIffStrictLocalMaximum ==
    /\ pitchPc = "done" => TraceIsLocalMaxima(pitchTrace, 30)
    /\ notesPc = "done" => TraceIsLocalMaxima(notesTrace, 100)

\* C8 witness: both detectors ran on a spectrum that has a plateau above both
\* floors and, elsewhere, a peak
C8_Witness ==
    /\ pitchPc = "done"
    /\ notesPc = "done"
    /\ \E i \in Bins :
          /\ i + 1 \in Bins
          /\ frequencyData[i + 1] = frequencyData[i + 2]
          /\ frequencyData[i + 1] > 100
    /\ Len(pitchTrace) > 0
    /\ Len(notesTrace) > 0
    /\ pitchTrace[1].bin > 0

\* exactly bin i is above the floor, every other bin is at or below it
IsolatedSpike(i, floor) ==
    /\ StrictLocalMaximum(i, floor)
    /\ \A j \in Bins \ {i} : frequencyData[j + 1] <= floor

\* C9: when exactly one bin is above the floor and all others are at or below
\* it, exactly one bin is found to be a peak, whatever the length of the
\* spectrum and wherever the spike is.
C9_IsolatedSpikeIsOnePeak ==
    /\ pitchPc = "done" =>
          \A i \in Bins : IsolatedSpike(i, 30) =>
              Len(pitchTrace) = 1 /\ pitchTrace[1].bin = i
    /\ notesPc = "done" =>
          \A i \in Bins : IsolatedSpike(i, 100) =>
              Len(notesTrace) = 1 /\ notesTrace[1].bin = i

\* C9 witness: both detectors ran on a spectrum of one bin that is a spike
C9_Witness ==
    /\ pitchPc = "done"
    /\ notesPc = "done"
    /\ Len(frequencyData) = 1
    /\ IsolatedSpike(0, 100)
    /\ Len(pitchTrace) = 1
    /\ Len(notesTrace) = 1

\* the frequency is exactly hz
IsHz(frequency, hz) == frequency.num = hz * frequency.den

\* C10: in both modes a peak bin whose frequency is exactly the lower or the
\* upper bound of the mode's range (65 and 1000 Hz vocal, 80 and 1100 Hz
\* instrument) is accepted.
C10_RangeBoundsInclusive ==
    /\ pitchPc = "done" =>
          \A t \in 1..Len(pitchTrace) :
              (IsHz(pitchTrace[t].frequency, 65) \/ IsHz(pitchTrace[t].frequency, 1000))
                  => pitchTrace[t].inRange
    /\ notesPc = "done" =>
          \A t \in 1..Len(notesTrace) :
              (IsHz(notesTrace[t].frequency, 80) \/ IsHz(notesTrace[t].frequency, 1100))
                  => /\ notesTrace[t].inRange
                     /\ \E p \in 1..Len(peaks) :
                           peaks[p].frequency = notesTrace[t].frequency

----------------------------------------------------------------------------
(* Claims about the note mapping, checked under PitchSpec *)

\* indices of the bands of the table whose range, both ends included, holds
\* the frequency
BandsHolding(table, frequency) ==
    {k \in 1..Len(table) :
        /\ (table[k].center - table[k].width) * frequency.den <= 100 * frequency.num
        /\ 100 * frequency.num <= (table[k].center + table[k].width) * frequency.den}

Lowest(indices) == CHOOSE k \in indices : \A j \in indices : k <= j

\* the peaks that detectPitches maps to notes
MappedPeaks == 1..(IF Len(peaks) < 12 THEN Len(peaks) ELSE 12)

\* C11: a peak frequency is given the note of the first band, in the order
\* the table declares them, whose range with both ends included holds it, and
\* no note when no band holds it; in the instrument mode the notes returned
\* are the pitch classes of exactly those bands.
C11_FirstBandInDeclarationOrderWins ==
    /\ pitchPc = "done" =>
          /\ \A t \in 1..Len(pitchTrace) :
                pitchTrace[t].inRange =>
                    LET holding == BandsHolding(NOTE_FREQUENCIES_VOCAL, pitchTrace[t].frequency)
                    IN  pitchTrace[t].band = IF holding = {} THEN 0 ELSE Lowest(holding)
          /\ strongestPitch # NoPitch =>
                \E t \in 1..Len(pitchTrace) :
                    /\ pitchTrace[t].band # 0
                    /\ pitchTrace[t].frequency = strongestPitch.frequency
                    /\ strongestPitch.note
                          = Join(NOTE_FREQUENCIES_VOCAL[pitchTrace[t].band].note)
    /\ notesPc = "done" =>
          {detectedNotes[i] : i \in 1..Len(detectedNotes)}
            = {BaseNote(NOTE_FREQUENCIES_INSTRUMENT[
                    Lowest(BandsHolding(NOTE_FREQUENCIES_INSTRUMENT, peaks[p].frequency))].note) :
                 p \in {q \in MappedPeaks :
                          BandsHolding(NOTE_FREQUENCIES_INSTRUMENT, peaks[q].frequency) # {}}}

\* C11 witness: one analysis by both detectors in which a vocal peak lies in
\* the overlap of two bands and another lies in range but in no band, and an
\* instrument peak lies in two bands
C11_Witness ==
    /\ pitchPc = "done"
    /\ notesPc = "done"
    /\ \E t \in 1..Len(pitchTrace) :
          /\ pitchTrace[t].inRange
          /\ Cardinality(BandsHolding(NOTE_FREQUENCIES_VOCAL, pitchTrace[t].frequency)) = 2
          /\ pitchTrace[t].band # 0
    /\ \E t \in 1..Len(pitchTrace) :
          /\ pitchTrace[t].inRange
          /\ BandsHolding(NOTE_FREQUENCIES_VOCAL, pitchTrace[t].frequency) = {}
    /\ \E p \in MappedPeaks :
          Cardinality(BandsHolding(NOTE_FREQUENCIES_INSTRUMENT, peaks[p].frequency)) = 2
    /\ Len(detectedNotes) > 0

\* C17: a pitch detectPitch returns has the frequency of a peak bin, within
\* [65, 1000] Hz and within the band of the note it names; a peak outside
\* that range is never the one returned, however strong.
C17_ResultWithinVocalRangeAndBand ==
    (pitchPc = "done" /\ strongestPitch # NoPitch)
        => /\ 65 * strongestPitch.frequency.den <= strongestPitch.frequency.num
           /\ strongestPitch.frequency.num <= 1000 * strongestPitch.frequency.den
           /\ \E k \in BandsHolding(NOTE_FREQUENCIES_VOCAL, strongestPitch.frequency) :
                 Join(NOTE_FREQUENCIES_VOCAL[k].note) = strongestPitch.note
           /\ \E t \in 1..Len(pitchTrace) :
                 /\ pitchTrace[t].frequency = strongestPitch.frequency
                 /\ pitchTrace[t].magnitude = strongestPitch.magnitude
                 /\ pitchTrace[t].frequency.num * fftSize
                       = pitchTrace[t].bin * sampleRate * pitchTrace[t].frequency.den

\* C17 witness: a pitch was returned although a stronger peak lies below
\* 65 Hz
C17_Witness ==
    /\ pitchPc = "done"
    /\ strongestPitch # NoPitch
    /\ \E t \in 1..Len(pitchTrace) :
          /\ pitchTrace[t].frequency.num < 65 * pitchTrace[t].frequency.den
          /\ pitchTrace[t].magnitude > strongestPitch.magnitude

\* the peaks of the vocal mode that are within [65, 1000] Hz and within some
\* band of the table, by position in the trace (bin order)
MappedVocalPeaks ==
    {t \in 1..Len(pitchTrace) :
        /\ 65 * pitchTrace[t].frequency.den <= pitchTrace[t].frequency.num
        /\ pitchTrace[t].frequency.num <= 1000 * pitchTrace[t].frequency.den
        /\ BandsHolding(NOTE_FREQUENCIES_VOCAL, pitchTrace[t].frequency) # {}}

\* C18: detectPitch returns null exactly when no peak is in range and in a
\* band; otherwise it returns, of the peaks that are, the one of greatest
\* magnitude, the one of lowest frequency if several have that magnitude.
C18_StrongestMappedPeakLowestOnTies ==
    pitchPc = "done" =>
        /\ strongestPitch = NoPitch <=> MappedVocalPeaks = {}
        /\ strongestPitch # NoPitch =>
              \E t \in MappedVocalPeaks :
                  /\ pitchTrace[t].frequency = strongestPitch.frequency
                  /\ pitchTrace[t].magnitude = strongestPitch.magnitude
                  /\ \A u \in MappedVocalPeaks :
                        /\ pitchTrace[u].magnitude <= pitchTrace[t].magnitude
                        /\ pitchTrace[u].magnitude = pitchTrace[t].magnitude => t <= u

\* C18 witness: two mapped peaks of one magnitude, the lower returned
C18_Witness ==
    /\ pitchPc = "done"
    /\ strongestPitch # NoPitch
    /\ \E t, u \in MappedVocalPeaks :
          /\ t < u
          /\ pitchTrace[t].magnitude = pitchTrace[u].magnitude
          /\ pitchTrace[t].frequency = strongestPitch.frequency

\* C14: every pitch detectPitch returns has a cents value within [-50, 50].
C14_CentsWithinHalfSemitone ==
    (pitchPc = "done" /\ strongestPitch # NoPitch)
        => /\ strongestPitch.cents >= -50
           /\ strongestPitch.cents <= 50

Chromatic == <<"C", "C#", "D", "D#", "E", "F", "F#", "G", "G#", "A", "A#", "B">>

ChromaticPosition(note) == CHOOSE i \in 1..12 : Chromatic[i] = note

\* the peaks of the instrument mode that are in range, by position in the
\* trace (bin order)
InRangePeaks == {t \in 1..Len(notesTrace) : notesTrace[t].inRange}

\* the pitch class the table gives the t-th peak of the trace, "" if none
PitchClassOf(t) ==
    LET holding == BandsHolding(NOTE_FREQUENCIES_INSTRUMENT, notesTrace[t].frequency)
    IN  IF holding = {} THEN ""
        ELSE BaseNote(NOTE_FREQUENCIES_INSTRUMENT[Lowest(holding)].note)

\* the magnitude of the strongest in-range peak matched to the pitch class
Strongest(pitchClass) ==
    LET matched == {t \in InRangePeaks : PitchClassOf(t) = pitchClass}
    IN  CHOOSE m \in {notesTrace[t].magnitude : t \in matched} :
            \A t \in matched : notesTrace[t].magnitude <= m

\* C13: detectPitches returns a list without repeated elements, each one of
\* the 12 pitch-class names without octave and matched by some peak, in the
\* order in which the pitch classes are first matched when the peaks are
\* visited from the strongest to the weakest.
C13_DistinctPitchClassesByFirstDetection ==
    notesPc = "done" =>
        /\ \A i, j \in 1..Len(detectedNotes) :
              i # j => detectedNotes[i] # detectedNotes[j]
        /\ \A i \in 1..Len(detectedNotes) :
              /\ \E c \in 1..12 : Chromatic[c] = detectedNotes[i]
              /\ \E t \in InRangePeaks : PitchClassOf(t) = detectedNotes[i]
        /\ \A i, j \in 1..Len(detectedNotes) :
              i < j => Strongest(detectedNotes[i]) >= Strongest(detectedNotes[j])

\* C13 witness: two in-range peaks an octave apart, the upper the stronger,
\* were matched to one pitch class, which is returned once
C13_Witness ==
    /\ notesPc = "done"
    /\ Len(detectedNotes) = 1
    /\ \E t, u \in InRangePeaks :
          /\ t < u
          /\ notesTrace[t].magnitude < notesTrace[u].magnitude
          /\ PitchClassOf(t) = detectedNotes[1]
          /\ PitchClassOf(u) = detectedNotes[1]

----------------------------------------------------------------------------
(* Claims about the recorder's analysis ticks, checked under RecorderSpec *)

\* C12: whenever a tick has published a non-empty note list, the root
\* published with it is the note of the list that comes first in the order
\* C, C#, D, D#, E, F, F#, G, G#, A, A#, B, wherever it stands in the list.
C12_RootIsLowestChromaticNote ==
    (tickKind = "changed" /\ Len(activeNotes) > 0)
        => /\ \E i \in 1..Len(activeNotes) : activeNotes[i] = rootNote
           /\ \A i \in 1..Len(activeNotes) :
                 ChromaticPosition(rootNote) <= ChromaticPosition(activeNotes[i])

\* C12 witness: a tick published G before C, G being the louder, with root C
C12_Witness ==
    /\ tickKind = "changed"
    /\ activeNotes = <<"G", "C">>
    /\ detectedNotes = activeNotes
    /\ rootNote = "C"

\* C19: a tick that runs detectPitches comes at least 200 ms after the tick
\* before it that did.
C19_DetectionRunsAtLeast200msApart ==
    [][(/\ ticks' = ticks + 1
        /\ tickKind' \in {"same", "changed"}
        /\ noteDetectionTime # -1)
          => now' - noteDetectionTime >= 200]_vars

----------------------------------------------------------------------------
(* Claims about the pitch display, checked under DisplaySpec *)

\* C15: once the pitch prop has been null for more than 800 ms without a
\* break, no pitch is displayed; while it has been null for less than that
\* the pitch displayed stays as it is; and while the prop holds a pitch, that
\* pitch is displayed and no clearing timeout is pending.
C15_SilenceClearsAfter800ms ==
    /\ []((pitch = NoPitch /\ silentFor > 800)
            => (displayPitch = NoPitch /\ ~isStable))
    /\ [](pitch # NoPitch => (displayPitch = pitch /\ clearTimer = -1))
    /\ [][(pitch' = NoPitch /\ silentFor' < 800) => displayPitch' = displayPitch]_vars

\* C15 witness: a pitch was shown, the prop went null and stayed null for
\* more than 800 ms, and the display is cleared
C15_Witness ==
    /\ feeds >= 2
    /\ pitch = NoPitch
    /\ silentFor > 800
    /\ displayPitch = NoPitch
    /\ clearTimer = -1

\* C16 as stated: from the fourth tick of a run of one note within the
\* stability window on, the note is displayed and marked stable.
C16_StableAfterThirdTick ==
    (pitch # NoPitch /\ run >= 4) => (displayPitch = pitch /\ isStable)

\* C16 as amended: a pitch fed is displayed on every tick; from the eighth
\* tick of a run of one note, each tick within 15 cents of the one before, it
\* is marked stable; and a tick that carries another note than the tick
\* before it, or cents 15 or more away from it, leaves the display not stable.
C16_StableFromEighthTick ==
    /\ [](pitch # NoPitch => displayPitch = pitch)
    /\ []((pitch # NoPitch /\ run >= 8) => isStable)
    /\ [][(/\ pitch # NoPitch
            /\ pitch' # NoPitch
            /\ feeds' = feeds + 1
            /\ \/ pitch'.note # pitch.note
               \/ Abs(pitch'.cents - pitch.cents) >= 15)
              => ~isStable']_vars

\* C16 witness: the eighth tick of a run has marked the display stable, the
\* seventh had not
C16_Witness ==
    /\ pitch # NoPitch
    /\ run = 8
    /\ stableTimer = 7
    /\ isStable
    /\ displayPitch = pitch

----------------------------------------------------------------------------
(* Claims about the pitch tracker, checked under TrackerSpec *)

\* the call of this step was given a loud frame none of whose peaks within
\* the vocal range is within a band of the table
LoudFrameWithoutNote ==
    /\ ticks' = ticks + 1
    /\ Sum(frequencyData', Len(frequencyData')) >= VolumeFloor * Len(frequencyData')
    /\ MappedVocalPeaks' = {}

\* C20: a call of the tracker on a loud frame for which no note band matches
\* changes neither the pitch reported nor the pitch displayed, leaves the
\* history as it is, and neither starts nor moves the silence timer or the
\* display's timeout.
C20_LoudFrameWithoutNoteIsIgnored ==
    [][LoudFrameWithoutNote =>
          UNCHANGED <<pitch, displayPitch, isStable, stableTimer, clearTimer,
                      history, silenceStart>>]_vars

\* a loud frame with a peak in the vocal range and in no band has been given
\* to the tracker while it held a pitch and its silence timer was running
C20_Witness ==
    /\ tickKind = "ignored"
    /\ \E t \in 1..Len(pitchTrace) : pitchTrace[t].inRange /\ pitchTrace[t].band = 0
    /\ MappedVocalPeaks = {}
    /\ history # <<>>
    /\ pitch # NoPitch
    /\ silenceStart # -1

----------------------------------------------------------------------------
(* Claims about the order of the note list, checked under PermutationSpec *)

\* C24: for every list of distinct pitch classes, every permutation of it and
\* every root hint, detectChords returns the same sequence of candidates for
\* the permutation as for the list: the same chords with the same
\* matchPercentage in the same order.
C24_SameCandidatesForEveryOrder ==
    chordPc = "done" => permutedMatches = matches

\* detectChords has been called on a list of three notes and on a different
\* order of it, without a root hint, and has returned several candidates,
\* two of them with equal matchPercentage
C24_Witness ==
    /\ chordPc = "done"
    /\ rootNote = "none"
    /\ Len(activeNotes) = 3
    /\ permuted # activeNotes
    /\ \E i, j \in 1..Len(permutedMatches) :
          /\ i < j
          /\ permutedMatches[i].matchPercentage = permutedMatches[j].matchPercentage

----------------------------------------------------------------------------
(* Claims about a recording session, checked under SessionSpec *)

\* C21: after every analysis tick that runs note detection the published
\* activeNotes is the list detectPitches returned on that tick, also on the
\* first detection after a stop and a start.
C21_PublishedNotesAreThoseDetected ==
    [][(ticks' = ticks + 1 /\ tickKind' \in {"same", "changed"})
          => activeNotes' = detectedNotes']_vars

\* C22: from the completion of stopRecording until the next click on start
\* no animation frame is pending and the script processor has no callback,
\* no analysis tick runs, and activeNotes and rootNote stay empty and null.
C22_NothingRunsAfterStop ==
    /\ [](lastClick = "stop" =>
            /\ pendingFrames = {}
            /\ ~onaudioprocess
            /\ activeNotes = <<>>
            /\ rootNote = "none")
    /\ [][lastClick = "stop" => ticks' = ticks]_vars

\* C23: rootNote is null exactly when activeNotes is empty, and a rootNote
\* that is not null is an element of activeNotes; a tick on a spectrum of
\* mean magnitude at most 20 changes neither.
C23_RootNullExactlyWhenNoNotes ==
    /\ []((rootNote = "none") <=> (activeNotes = <<>>))
    /\ [](rootNote # "none" => Includes(activeNotes, rootNote))
    /\ [][(ticks' = ticks + 1 /\ tickKind' = "quiet")
             => UNCHANGED <<activeNotes, rootNote>>]_vars

\* the notes G and C were published with the root C, which is not the first
\* of them, and a quiet tick has run since
C23_Witness ==
    /\ isRecording
    /\ tickKind = "quiet"
    /\ activeNotes = <<"G", "C">>
    /\ rootNote = "C"

====
